---- MODULE Spec2Model ----
(***************************************************************************)
(* Client-side AI service of kanban-clippy (services/ai.ts, the variant    *)
(* with the two-tier cache): chunkArray, the per-batch cluster merge of    *)
(* generateClusters, checkForDuplicates, clearCache, the in-process        *)
(* requestCache and the localStorage slot; and the ClusterDialog component *)
(* (its open handler, its staleness check and its own use of the slot).    *)
(* Card ids are modelled as naturals standing for fixed-width id strings,  *)
(* so that the numeric order is the order Array.prototype.sort gives them. *)
(* A cluster returned by the collaborator is a record {clusterName,        *)
(* cards}; a card inside a cluster is represented by its id.               *)
(***************************************************************************)
EXTENDS Integers, Sequences, FiniteSets, TLC

\* ------------------------------------------------------------------ bounds
MaxTicks == 2
MaxClustersPerBatch == 2
MaxChunkLen == 5
MaxChunkSize == 3
MaxSigLen == 3
MaxStaleClusters == 3

\* ------------------------------------------------------- program constants
MAX_BATCH_SIZE == 50
CACHE_TTL == 14 * 24 * 60 * 60 * 1000
APP_NAME == "kanban-clippy"
CLUSTERS_CACHE_KEY == "kanban-clippy-clusters"
\* ClusterDialog.tsx
CLUSTERS_TIMESTAMP_KEY == "kanban-clippy-clusters-timestamp"
CACHE_EXPIRY_TIME == 24 * 60 * 60 * 1000

\* ------------------------------------------------------------ input domains
Callers == {1, 2}

Ids(n) == [k \in 1..n |-> k]

\* card lists handed to generateClusters: a small board (single request)
\* and a board of 101 cards (three batches: 50, 50, 1)
SmallBoard == <<2, 1>>
CardInputs == {SmallBoard, Ids(2 * MAX_BATCH_SIZE + 1)}

ClusterNames == {"Auth bugs", "auth bugs", "UI"}
BatchCardLists == {<<"A", "B">>, <<"B", "C">>, <<"B", "B">>}
\* the clusters a response is made of: names that differ in case only,
\* another name, overlapping card lists and a list that repeats a card
RawClusters ==
    {c \in [clusterName : ClusterNames, cards : BatchCardLists] :
        /\ c.clusterName = "UI" => c.cards = <<"B", "C">>
        /\ c.cards = <<"B", "B">> => c.clusterName = "Auth bugs"}

\* response bodies the collaborator may produce: any list of at most
\* MaxClustersPerBatch clusters (the core does not constrain what it names)
Bodies == UNION {[1..n -> RawClusters] : n \in 0..MaxClustersPerBatch}
FewBodies == {<<[clusterName |-> "Auth bugs", cards |-> <<"A", "B">>]>>,
              <<[clusterName |-> "UI", cards |-> <<"B", "C">>]>>}

FailureKinds == {"network", "status", "parse"}

\* String.prototype.toLowerCase on the cluster names of the model
toLowerCase(name) ==
    CASE name = "Auth bugs" -> "auth bugs"
      [] name = "auth bugs" -> "auth bugs"
      [] name = "UI" -> "ui"
      [] OTHER -> name

Min(a, b) == IF a < b THEN a ELSE b

\* ------------------------------------------------------------- chunkArray
\* Math.ceil(array.length / chunkSize) as an IEEE number, then the length
\* Array.from reads from the array-like {length: ...}: NaN and negative
\* lengths become 0, Infinity makes the array constructor throw RangeError.
\* variant: the quotient rounded down, which drops a ragged last batch
chunkCountFloor(n, chunkSize) ==
    IF chunkSize > 0 THEN [threw |-> FALSE, length |-> n \div chunkSize]
    ELSE IF chunkSize < 0 THEN [threw |-> FALSE, length |-> 0]
    ELSE IF n = 0 THEN [threw |-> FALSE, length |-> 0]
    ELSE [threw |-> TRUE, length |-> 0]

chunkCount(n, chunkSize) ==
    IF chunkSize > 0 THEN [threw |-> FALSE, length |-> (n + chunkSize - 1) \div chunkSize]
    ELSE IF chunkSize < 0 THEN [threw |-> FALSE, length |-> 0]
    ELSE IF n = 0 THEN [threw |-> FALSE, length |-> 0]
    ELSE [threw |-> TRUE, length |-> 0]

\* array.slice(start, end) for 0 <= start <= end
slice(array, start, end) ==
    SubSeq(array, Min(start, Len(array)) + 1, Min(end, Len(array)))

chunkArray(array, chunkSize) ==
    LET cnt == chunkCount(Len(array), chunkSize)
    IN  [threw |-> cnt.threw,
         value |-> [i \in 1..cnt.length |->
                      slice(array, (i - 1) * chunkSize, i * chunkSize)]]

\* ------------------------------------------------------------- cache keys
\* Array.prototype.sort on the ids: a stable ascending arrangement (a list
\* already in order is its own arrangement)
sortIds(ids) ==
    LET n == Len(ids)
        rank == [j \in 1..n |->
                   Cardinality({k \in 1..n : ids[k] < ids[j] \/ (ids[k] = ids[j] /\ k < j)}) + 1]
    IN  IF \A i \in 1..(n - 1) : ids[i] <= ids[i + 1]
        THEN ids
        ELSE [i \in 1..n |-> ids[CHOOSE j \in 1..n : rank[j] = i]]

\* cards.map(c => c.id).sort().join(',')
cardsSignatureOf(cards) == sortIds(cards)

\* JSON values: a scalar (string or number), an array of values, or an
\* object, which is the list of its {key, value} properties in insertion
\* order
JScalar(v) == [scalar |-> v]
JArray(items) == [items |-> items]
JObject(props) == [props |-> props]
isObject(value) == "props" \in DOMAIN value
isArray(value) == "items" \in DOMAIN value

\* the property names of the model, in the order of String comparison
KeyOrder == <<"a", "b", "cardIds", "cardsSignature", "existingCards", "id", "newCard", "title">>

\* Object.keys(data)
keysOf(data) == [i \in 1..Len(data.props) |-> data.props[i].key]

\* variant: the keys in insertion order
unsortedKeys(keys) == keys

\* Array.prototype.sort on property names
sortKeys(keys) ==
    SelectSeq(KeyOrder, LAMBDA k : \E i \in 1..Len(keys) : keys[i] = k)

propertyOf(object, key) ==
    object.props[CHOOSE i \in 1..Len(object.props) : object.props[i].key = key].value

RECURSIVE stringify(_, _)
\* JSON.stringify(value, replacer) with an array replacer: of every object,
\* nested ones included, only the properties named in the replacer are
\* written, in the replacer's order; array elements are all written.  The
\* result stands for the text (equal values, equal texts).
stringify(value, replacer) ==
    IF isObject(value)
    THEN LET present == SelectSeq(replacer,
                 LAMBDA k : \E i \in 1..Len(value.props) : value.props[i].key = k)
         IN  JObject([j \in 1..Len(present) |->
                 [key |-> present[j],
                  value |-> stringify(propertyOf(value, present[j]), replacer)]])
    ELSE IF isArray(value)
    THEN JArray([i \in 1..Len(value.items) |-> stringify(value.items[i], replacer)])
    ELSE value

\* `${endpoint}:${JSON.stringify(data, Object.keys(data).sort())}`
generateCacheKey(endpoint, data) ==
    <<endpoint, stringify(data, sortKeys(keysOf(data)))>>

generateLocalStorageKey(cardsSignature) == CLUSTERS_CACHE_KEY

\* variant: an entry is still valid at an age of exactly one TTL
isCacheValidInclusive(cacheEntry, t) == t - cacheEntry.timestamp <= CACHE_TTL

\* variant: the comparison the wrong way round
isCacheValidInverted(cacheEntry, t) == t - cacheEntry.timestamp > CACHE_TTL

isCacheValid(cacheEntry, t) == t - cacheEntry.timestamp < CACHE_TTL

\* variant: the tiers are read by forced calls too
readsCacheAlways(forceRefresh) == TRUE

\* `if (!forceRefresh)`: the two cache tiers are read only by unforced calls
readsCache(forceRefresh) == ~forceRefresh

\* ------------------------------------------------------------ merge step
RECURSIVE uniqueCards(_)
\* mergedCards.filter((card, index, self) =>
\*     index === self.findIndex(c => c.id === card.id))
uniqueCards(mergedCards) ==
    IF mergedCards = <<>> THEN <<>>
    ELSE LET n == Len(mergedCards)
             front == uniqueCards(SubSeq(mergedCards, 1, n - 1))
         IN  IF \E j \in 1..(n - 1) : mergedCards[j] = mergedCards[n]
             THEN front
             ELSE Append(front, mergedCards[n])

\* accumulatedClusters.findIndex(c => c.clusterName.toLowerCase() ===
\* newCluster.clusterName.toLowerCase()); 0 stands for -1.  Clusters in the
\* accumulator come from response bodies and carry no title, so the second
\* disjunct of the predicate is never taken.
findClusterIndex(acc, newCluster) ==
    LET hits == {k \in 1..Len(acc) :
                   toLowerCase(acc[k].clusterName) = toLowerCase(newCluster.clusterName)}
    IN  IF hits = {} THEN 0 ELSE CHOOSE k \in hits : \A h \in hits : k <= h

\* variant: cards already held by any accumulated cluster are dropped from
\* the new cluster, whatever its name
mergeClusterAcrossNames(acc, newCluster) ==
    LET existingClusterIndex == findClusterIndex(acc, newCluster)
        fresh == SelectSeq(newCluster.cards,
                     LAMBDA c : \A k \in 1..Len(acc) : \A j \in 1..Len(acc[k].cards) :
                                   acc[k].cards[j] # c)
    IN  IF existingClusterIndex > 0
        THEN [acc EXCEPT ![existingClusterIndex].cards =
                 uniqueCards(acc[existingClusterIndex].cards \o fresh)]
        ELSE Append(acc, [newCluster EXCEPT !.cards = fresh])

\* the body of `for (const newCluster of result.clusters)`
mergeCluster(acc, newCluster) ==
    LET existingClusterIndex == findClusterIndex(acc, newCluster)
    IN  IF existingClusterIndex > 0
        THEN [acc EXCEPT ![existingClusterIndex].cards =
                 uniqueCards(acc[existingClusterIndex].cards \o newCluster.cards)]
        ELSE Append(acc, newCluster)

RECURSIVE mergeClusters(_, _)
mergeClusters(acc, clusters) ==
    IF clusters = <<>> THEN acc
    ELSE mergeClusters(mergeCluster(acc, Head(clusters)), Tail(clusters))

\* accumulator after the response to batch i (0-based, as in the source)
foldBatch(i, acc, clusters) ==
    IF i = 0 THEN clusters ELSE mergeClusters(acc, clusters)

existingClusterNamesOf(acc) == [k \in 1..Len(acc) |-> acc[k].clusterName]

finalClustersOf(acc, t) ==
    [k \in 1..Len(acc) |->
        [clusterName |-> acc[k].clusterName,
         cards |-> acc[k].cards,
         id |-> acc[k].clusterName,
         title |-> acc[k].clusterName,
         description |-> <<"Cluster of cards related to ", acc[k].clusterName>>,
         cardIds |-> acc[k].cards,
         createdAt |-> t]]

\* variant: the catch block hands back what was accumulated so far
catchResultPartial(acc) == [kind |-> "resolved", value |-> [clusters |-> acc]]

\* value produced by the catch block of generateClusters
catchResult(acc) == [kind |-> "resolved", value |-> [clusters |-> <<>>]]

\* ------------------------------------------------------------------ state
VARIABLES
    now,            \* Date.now()
    ticks,          \* number of clock advances so far
    requestCache,   \* the module-level Map, as a set of {key, data, timestamp}
    localStorage,   \* the browser store, as a set of {key, value}
    call,           \* per caller: the activation of generateClusters
    inflight,       \* collaborator requests sent and not yet answered
    chunk,          \* an application of chunkArray: input and result
    fold,           \* an accumulator and a batch result folded into it
    dup,            \* per caller: the activation of checkForDuplicates
    dialog,         \* the ClusterDialog component: its state and its board
    sig,            \* an application of the signature functions
    staleness,      \* an application of areClustersCurrent
    cleared,        \* the last clearCache() and the call that followed it
    form,           \* the CardFormDialog component: its state and its checks
    boardState      \* the cards of the board reducer's state

vars == <<now, ticks, requestCache, localStorage, call, inflight, chunk, fold,
          dup, dialog, sig, staleness, cleared, form, boardState>>

hasKey(store, key) == \E e \in store : e.key = key
entryOf(store, key) == CHOOSE e \in store : e.key = key
\* Map.prototype.set / Storage.setItem: one entry per key, the last one wins
setEntry(store, entry) == {e \in store : e.key # entry.key} \cup {entry}

\* the try block of saveClustersToLocalStorage; setItem may throw (quota),
\* which the catch block logs and drops.  JSON.stringify / JSON.parse of
\* the plain {data, timestamp} object give the object back.
saveClustersToLocalStorage(storage, cardsSignature, data, t, setItemOk) ==
    IF setItemOk
    THEN setEntry(storage, [key |-> generateLocalStorageKey(cardsSignature),
                            value |-> [data |-> data, timestamp |-> t]])
    ELSE storage

getClustersFromLocalStorage(storage, cardsSignature, t) ==
    LET key == generateLocalStorageKey(cardsSignature)
    IN  IF ~hasKey(storage, key) THEN [found |-> FALSE]
        ELSE LET parsedData == entryOf(storage, key).value
             IN  \* a value without a timestamp gives NaN < CACHE_TTL, false
                 IF "timestamp" \in DOMAIN parsedData /\ t - parsedData.timestamp < CACHE_TTL
                 THEN [found |-> TRUE, data |-> parsedData.data]
                 ELSE [found |-> FALSE]

NoOutcome == [kind |-> "none"]

NewCall ==
    [pc |-> "ready", cards |-> <<>>, forceRefresh |-> FALSE, cacheKey |-> <<>>,
     cardsSignature |-> <<>>,
     batches |-> <<>>, i |-> 0, accumulatedClusters |-> <<>>, outcome |-> NoOutcome,
     \* bookkeeping about the activation, not read by the code
     requests |-> <<>>, responses |-> <<>>, failedAt |-> 0, servedFrom |-> "none",
     startedAt |-> 0, finishedAt |-> 0, setItemOk |-> TRUE,
     cacheAtRequest |-> {}, storageAtRequest |-> {}]

\* what an earlier page session may have left in the clusters slot
EarlierSession ==
    [key |-> CLUSTERS_CACHE_KEY,
     value |-> [data |-> [clusters |-> <<[clusterName |-> "UI", cards |-> <<"A", "B">>]>>],
                timestamp |-> 0]]

NoChunk == [array |-> <<>>, chunkSize |-> MAX_BATCH_SIZE, applied |-> FALSE,
            result |-> [threw |-> FALSE, value |-> <<>>]]
NoFold == [acc |-> <<>>, batch |-> <<>>, count |-> 0, once |-> <<>>]
\* a parsed JSON text that is an array (the other value the clusters slot
\* can hold is the service's {data, timestamp} object)
parsedArray(items) == [array |-> items]
isParsedArray(value) == "array" \in DOMAIN value

NotOpened == [found |-> FALSE, stale |-> FALSE, clusters |-> parsedArray(<<>>)]
\* the component as first rendered; "" stands for null
ClosedDialog ==
    [isOpen |-> FALSE, board |-> <<>>, clusters |-> parsedArray(<<>>), selectedClusterId |-> "",
     loading |-> FALSE, error |-> "", cacheStatus |-> "none",
     \* bookkeeping: a generateClusters of the dialog awaits the service; what
     \* the open handler got from loadClustersFromCache
     pending |-> FALSE, opened |-> NotOpened]
NoSig == [applied |-> FALSE, left |-> JObject(<<>>), right |-> JObject(<<>>),
          cardsLeft |-> <<>>, cardsRight |-> <<>>,
          keyLeft |-> <<>>, keyRight |-> <<>>,
          signatureLeft |-> <<>>, signatureRight |-> <<>>]
NoStaleness == [applied |-> FALSE, clusters |-> <<>>, currentCardIds |-> <<>>,
                counts |-> [cardsAdded |-> 0, cardsRemoved |-> 0, totalCards |-> 0],
                current |-> FALSE]
\* bookkeeping: clearCache() was the last operation of the service; it
\* removed something; the call that started right after it
NoClear == [done |-> FALSE, emptied |-> FALSE, next |-> <<"none", 0>>]

\* the card form as first rendered for a new card; "" stands for the empty
\* title and for no timer
ClosedForm ==
    [title |-> "", timer |-> "", duplicateCards |-> <<>>, showDuplicates |-> FALSE,
     checkingDuplicates |-> FALSE,
     \* bookkeeping: checks started, checks whose promise is still pending,
     \* the title changed while one was pending
     started |-> 0, awaiting |-> {}, changedInFlight |-> FALSE]

\* initialState of the board context: no cards; lastMove is bookkeeping, the
\* payload of the last MOVE_CARD
NoMove == [cardId |-> "", sourceColumnId |-> "", destinationColumnId |-> "", newOrder |-> 0]
initialState == [cards |-> <<>>, lastMove |-> NoMove]

NewDup ==
    [pc |-> "ready", newCard |-> JObject(<<>>), existingCards |-> <<>>,
     cardsToCheck |-> <<>>, cacheKey |-> <<>>, outcome |-> NoOutcome,
     \* bookkeeping about the activation, not read by the code
     request |-> JObject(<<>>), failure |-> "none", servedFrom |-> "none",
     startedAt |-> 0, finishedAt |-> 0, cacheAtRequest |-> {}]

\* the module has just been loaded: the Map is empty, the durable store is
\* empty or holds the slot written by an earlier session
InitService ==
    /\ now = 0
    /\ ticks = 0
    /\ requestCache = {}
    /\ localStorage \in {{}, {EarlierSession}}
    /\ call = [p \in Callers |-> NewCall]
    /\ inflight = {}

\* the parts of the application that a specification leaves at rest
NoDuplicateChecks == dup = [p \in Callers |-> NewDup]
DialogUnmounted == dialog = ClosedDialog
NoApplications == sig = NoSig /\ staleness = NoStaleness
NeverCleared == cleared = NoClear
FormUnmounted == form = ClosedForm
BoardNotLoaded == boardState = initialState

Init ==
    /\ InitService
    /\ chunk = NoChunk
    /\ fold = NoFold
    /\ NoDuplicateChecks /\ DialogUnmounted /\ NoApplications /\ NeverCleared /\ FormUnmounted /\ BoardNotLoaded

\* variant: the request of the earliest service version, cards only
batchRequestNoContext(batches, i, acc) ==
    [cards |-> batches[i + 1],
     existingClusters |-> <<>>,
     batchInfo |-> [current |-> i + 1, total |-> Len(batches)]]

\* body of the fetch for batch i (0-based) of the batch loop
batchRequest(batches, i, acc) ==
    [cards |-> batches[i + 1],
     existingClusters |-> existingClusterNamesOf(acc),
     batchInfo |-> [current |-> i + 1, total |-> Len(batches)]]

singleRequest(cards) == [cards |-> cards]

\* ---------------------------------------------------------------- actions
\* generateClusters(cards, forceRefresh) up to its first suspension point:
\* the cache reads, and the first fetch when neither tier answers
generateClusters(p, cards, forceRefresh) ==
    /\ call[p].pc = "ready"
    /\ LET cardsSignature == cardsSignatureOf(cards)
           cacheKey == generateCacheKey("generate-clusters",
               JObject(<<[key |-> "cardsSignature", value |-> JScalar(cardsSignature)]>>))
           memoryHit == /\ readsCache(forceRefresh)
                        /\ hasKey(requestCache, cacheKey)
                        /\ isCacheValid(entryOf(requestCache, cacheKey), now)
           localStorageResult == getClustersFromLocalStorage(localStorage, cardsSignature, now)
           entered == [call[p] EXCEPT !.cards = cards, !.forceRefresh = forceRefresh,
                                      !.cacheKey = cacheKey, !.cardsSignature = cardsSignature,
                                      !.startedAt = now,
                                      !.cacheAtRequest = requestCache,
                                      !.storageAtRequest = localStorage]
       IN  IF memoryHit
           THEN /\ call' = [call EXCEPT ![p] =
                      [entered EXCEPT !.pc = "done", !.servedFrom = "memory", !.finishedAt = now,
                          !.outcome = [kind |-> "resolved",
                                       value |-> entryOf(requestCache, cacheKey).data]]]
                /\ UNCHANGED <<requestCache, inflight>>
           ELSE IF readsCache(forceRefresh) /\ localStorageResult.found
           THEN /\ requestCache' = setEntry(requestCache,
                      [key |-> cacheKey, data |-> localStorageResult.data, timestamp |-> now])
                /\ call' = [call EXCEPT ![p] =
                      [entered EXCEPT !.pc = "done", !.servedFrom = "localStorage",
                          !.finishedAt = now,
                          !.outcome = [kind |-> "resolved", value |-> localStorageResult.data]]]
                /\ UNCHANGED inflight
           ELSE IF Len(cards) > MAX_BATCH_SIZE
           THEN LET batches == chunkArray(cards, MAX_BATCH_SIZE).value
                    request == batchRequest(batches, 0, <<>>)
                IN  /\ call' = [call EXCEPT ![p] =
                          [entered EXCEPT !.pc = "awaitBatch", !.servedFrom = "network",
                              !.batches = batches, !.i = 0, !.accumulatedClusters = <<>>,
                              !.requests = <<request>>]]
                    /\ inflight' = inflight \cup {[caller |-> p, request |-> request]}
                    /\ UNCHANGED requestCache
           ELSE /\ call' = [call EXCEPT ![p] =
                      [entered EXCEPT !.pc = "awaitSingle", !.servedFrom = "network",
                          !.requests = <<singleRequest(cards)>>]]
                /\ inflight' = inflight \cup {[caller |-> p, request |-> singleRequest(cards)]}
                /\ UNCHANGED requestCache
    /\ UNCHANGED <<now, ticks, localStorage, chunk, fold>>

\* a successful response to the batch in flight: merge it, then either send
\* the next batch or tag the clusters, write both cache tiers and return
batchResponseOk(p, body, setItemOk) ==
    /\ call[p].pc = "awaitBatch"
    /\ LET c == call[p]
           accumulatedClusters == foldBatch(c.i, c.accumulatedClusters, body)
           answered == [caller |-> p, request |-> c.requests[Len(c.requests)]]
       IN  IF c.i + 1 < Len(c.batches)
           THEN LET request == batchRequest(c.batches, c.i + 1, accumulatedClusters)
                IN  /\ call' = [call EXCEPT ![p] =
                          [c EXCEPT !.i = c.i + 1, !.accumulatedClusters = accumulatedClusters,
                              !.requests = Append(c.requests, request),
                              !.responses = Append(c.responses, body)]]
                    /\ inflight' = (inflight \ {answered}) \cup {[caller |-> p, request |-> request]}
                    /\ UNCHANGED <<requestCache, localStorage>>
           ELSE LET result == [clusters |-> finalClustersOf(accumulatedClusters, now)]
                IN  /\ requestCache' = setEntry(requestCache,
                          [key |-> c.cacheKey, data |-> result, timestamp |-> now])
                    /\ localStorage' = saveClustersToLocalStorage(localStorage,
                          c.cardsSignature, result, now, setItemOk)
                    /\ call' = [call EXCEPT ![p] =
                          [c EXCEPT !.pc = "done", !.accumulatedClusters = accumulatedClusters,
                              !.responses = Append(c.responses, body),
                              !.finishedAt = now, !.setItemOk = setItemOk,
                              !.outcome = [kind |-> "resolved", value |-> result]]]
                    /\ inflight' = inflight \ {answered}
    /\ UNCHANGED <<now, ticks, chunk, fold>>

\* variant: saveClustersToLocalStorage without its try/catch, so that a
\* setItem that throws reaches the catch block of generateClusters
singleResponseOkUncaught(p, body, setItemOk) ==
    /\ call[p].pc = "awaitSingle"
    /\ LET c == call[p]
           result == [clusters |-> body]
       IN  /\ requestCache' = setEntry(requestCache,
                 [key |-> c.cacheKey, data |-> result, timestamp |-> now])
           /\ localStorage' = saveClustersToLocalStorage(localStorage,
                 c.cardsSignature, result, now, setItemOk)
           /\ call' = [call EXCEPT ![p] =
                 [c EXCEPT !.pc = "done", !.responses = <<body>>, !.finishedAt = now,
                     !.setItemOk = setItemOk,
                     !.outcome = IF setItemOk THEN [kind |-> "resolved", value |-> result]
                                 ELSE catchResult(c.accumulatedClusters)]]
           /\ inflight' = inflight \ {[caller |-> p, request |-> c.requests[1]]}
    /\ UNCHANGED <<now, ticks, chunk, fold>>

\* a successful response on the single-request path (at most 50 cards)
singleResponseOk(p, body, setItemOk) ==
    /\ call[p].pc = "awaitSingle"
    /\ LET c == call[p]
           result == [clusters |-> body]
       IN  /\ requestCache' = setEntry(requestCache,
                 [key |-> c.cacheKey, data |-> result, timestamp |-> now])
           /\ localStorage' = saveClustersToLocalStorage(localStorage,
                 c.cardsSignature, result, now, setItemOk)
           /\ call' = [call EXCEPT ![p] =
                 [c EXCEPT !.pc = "done", !.responses = <<body>>, !.finishedAt = now,
                     !.setItemOk = setItemOk,
                     !.outcome = [kind |-> "resolved", value |-> result]]]
           /\ inflight' = inflight \ {[caller |-> p, request |-> c.requests[1]]}
    /\ UNCHANGED <<now, ticks, chunk, fold>>

\* the request in flight fails: fetch rejects, the status is not ok, or
\* response.json() throws.  Control reaches the catch block.
responseFailed(p, kind) ==
    /\ call[p].pc \in {"awaitBatch", "awaitSingle"}
    /\ LET c == call[p]
       IN  /\ call' = [call EXCEPT ![p] =
                 [c EXCEPT !.pc = "done", !.failedAt = c.i + 1, !.finishedAt = now,
                     !.outcome = catchResult(c.accumulatedClusters)]]
           /\ inflight' = inflight \ {[caller |-> p, request |-> c.requests[Len(c.requests)]]}
    /\ UNCHANGED <<now, ticks, requestCache, localStorage, chunk, fold>>

\* variant: the window keeps the oldest cards, array.slice(0, -start)
sliceFromHead(array, start) ==
    SubSeq(array, 1, IF Len(array) + start < 0 THEN Len(array) ELSE 0 - start)

\* array.slice(start) for start < 0: the last -start elements
sliceFrom(array, start) ==
    SubSeq(array, (IF Len(array) + start < 0 THEN 0 ELSE Len(array) + start) + 1, Len(array))

\* a card as the JSON object the service receives
card(id, title) ==
    JObject(<<[key |-> "id", value |-> JScalar(id)],
              [key |-> "title", value |-> JScalar(title)]>>)

\* variant: the catch block lets the failure through
checkForDuplicatesCatchRethrow(error) == [kind |-> "rejected", value |-> error]

\* value produced by the catch block of checkForDuplicates
checkForDuplicatesCatch(error) == [kind |-> "resolved", value |-> [duplicates |-> <<>>]]

\* checkForDuplicates(newCard, existingCards) up to its suspension point:
\* the window of the last MAX_BATCH_SIZE cards, the cache key, the read of
\* the in-process cache, and the fetch when the cache does not answer
checkForDuplicates(p, newCard, existingCards) ==
    /\ dup[p].pc = "ready"
    /\ LET cardsToCheck == IF Len(existingCards) > MAX_BATCH_SIZE
                           THEN sliceFrom(existingCards, 0 - MAX_BATCH_SIZE)
                           ELSE existingCards
           requestData ==
               JObject(<<[key |-> "newCard", value |-> newCard],
                         [key |-> "existingCards", value |-> JArray(cardsToCheck)],
                         [key |-> "cardIds", value |->
                             JArray([k \in 1..Len(cardsToCheck) |->
                                        propertyOf(cardsToCheck[k], "id")])]>>)
           cacheKey == generateCacheKey("check-duplicates", requestData)
           entered == [dup[p] EXCEPT !.newCard = newCard, !.existingCards = existingCards,
                                     !.cardsToCheck = cardsToCheck, !.cacheKey = cacheKey,
                                     !.startedAt = now, !.cacheAtRequest = requestCache]
       IN  IF hasKey(requestCache, cacheKey) /\ isCacheValid(entryOf(requestCache, cacheKey), now)
           THEN /\ dup' = [dup EXCEPT ![p] =
                      [entered EXCEPT !.pc = "done", !.servedFrom = "memory", !.finishedAt = now,
                          !.outcome = [kind |-> "resolved",
                                       value |-> entryOf(requestCache, cacheKey).data]]]
                /\ UNCHANGED inflight
           ELSE /\ dup' = [dup EXCEPT ![p] =
                      [entered EXCEPT !.pc = "awaitResponse", !.servedFrom = "network",
                          !.request = requestData]]
                /\ inflight' = inflight \cup {[caller |-> p, request |-> requestData]}
    /\ UNCHANGED <<now, ticks, requestCache, localStorage, call, chunk, fold>>

\* the collaborator answers with a parseable body: it is cached and returned
checkForDuplicatesResponseOk(p, result) ==
    /\ dup[p].pc = "awaitResponse"
    /\ requestCache' = setEntry(requestCache,
          [key |-> dup[p].cacheKey, data |-> result, timestamp |-> now])
    /\ dup' = [dup EXCEPT ![p] =
          [dup[p] EXCEPT !.pc = "done", !.finishedAt = now,
              !.outcome = [kind |-> "resolved", value |-> result]]]
    /\ inflight' = inflight \ {[caller |-> p, request |-> dup[p].request]}
    /\ UNCHANGED <<now, ticks, localStorage, call, chunk, fold>>

\* fetch rejects, the status is not ok, or response.json() throws
checkForDuplicatesResponseFailed(p, kind) ==
    /\ dup[p].pc = "awaitResponse"
    /\ dup' = [dup EXCEPT ![p] =
          [dup[p] EXCEPT !.pc = "done", !.finishedAt = now, !.failure = kind,
              !.outcome = checkForDuplicatesCatch(kind)]]
    /\ inflight' = inflight \ {[caller |-> p, request |-> dup[p].request]}
    /\ UNCHANGED <<now, ticks, requestCache, localStorage, call, chunk, fold>>

\* String.prototype.startsWith on the keys of the model
startsWith(key, prefix) ==
    CASE prefix = APP_NAME -> key \in {CLUSTERS_CACHE_KEY, CLUSTERS_TIMESTAMP_KEY}
      [] OTHER -> key = prefix

\* variant: the durable store is left alone
removeNoItems(storage) == storage

\* Object.keys(localStorage).filter(key => key.startsWith(APP_NAME))
\*     .forEach(key => localStorage.removeItem(key))
removeAppItems(storage) == {e \in storage : ~startsWith(e.key, APP_NAME)}

clearCache ==
    /\ requestCache' = {}
    /\ localStorage' = removeAppItems(localStorage)
    /\ cleared' = [done |-> TRUE,
                   emptied |-> requestCache # {} /\ localStorage' # localStorage,
                   next |-> <<"none", 0>>]
    /\ UNCHANGED <<now, ticks, call, inflight, chunk, fold, dup, dialog, sig, staleness, form, boardState>>

\* ------------------------------------------------------------ ClusterDialog
RECURSIVE flatMapCardIds(_)
\* clusters.flatMap(cluster => cluster.cardIds)
flatMapCardIds(clusters) ==
    IF clusters = <<>> THEN <<>>
    ELSE Head(clusters).cardIds \o flatMapCardIds(Tail(clusters))

\* variant: only the cards that were added are counted
changeCountsAddedOnly(clusters, currentCardIds) ==
    LET clusterCardIds == flatMapCardIds(clusters)
        clusterCardSet == {clusterCardIds[i] : i \in 1..Len(clusterCardIds)}
        lenCluster == Len(clusterCardIds)
        lenCurrent == Len(currentCardIds)
    IN  [cardsAdded |->
             Cardinality({i \in 1..lenCurrent : currentCardIds[i] \notin clusterCardSet}),
         cardsRemoved |-> 0,
         totalCards |-> IF lenCluster > lenCurrent THEN lenCluster ELSE lenCurrent]

\* the counts areClustersCurrent derives from the cached clusters and the
\* ids of the current cards
changeCounts(clusters, currentCardIds) ==
    LET clusterCardIds == flatMapCardIds(clusters)
        clusterCardSet == {clusterCardIds[i] : i \in 1..Len(clusterCardIds)}
        currentCardSet == {currentCardIds[i] : i \in 1..Len(currentCardIds)}
        lenCluster == Len(clusterCardIds)
        lenCurrent == Len(currentCardIds)
    IN  [cardsAdded |->
             Cardinality({i \in 1..lenCurrent : currentCardIds[i] \notin clusterCardSet}),
         cardsRemoved |->
             Cardinality({i \in 1..lenCluster : clusterCardIds[i] \notin currentCardSet}),
         totalCards |-> IF lenCluster > lenCurrent THEN lenCluster ELSE lenCurrent]

\* (cardsAdded + cardsRemoved) / totalCards < 0.2; 0 / 0 is NaN, and NaN
\* is below nothing
areClustersCurrent(clusters, currentCardIds) ==
    LET n == changeCounts(clusters, currentCardIds)
    IN  n.totalCards > 0 /\ 5 * (n.cardsAdded + n.cardsRemoved) < n.totalCards

\* loadClustersFromCache: what it returns (found = not null) and whether it
\* called setCacheStatus('stale').  The slot may hold the array the dialog
\* saved or the {data, timestamp} object the service saved; on the object
\* clusters.flatMap throws and the catch block returns null.
loadClustersFromCache(storage, board, t) ==
    IF ~hasKey(storage, CLUSTERS_CACHE_KEY) \/ ~hasKey(storage, CLUSTERS_TIMESTAMP_KEY)
    THEN NotOpened
    ELSE LET cachedClusters == entryOf(storage, CLUSTERS_CACHE_KEY).value
             \* parseInt of the decimal text that saveClustersToCache wrote
             cachedTimestamp == entryOf(storage, CLUSTERS_TIMESTAMP_KEY).value.text
         IN  IF t - cachedTimestamp > CACHE_EXPIRY_TIME
             THEN [found |-> TRUE, stale |-> TRUE, clusters |-> cachedClusters]
             ELSE IF ~isParsedArray(cachedClusters)
             THEN NotOpened
             ELSE IF ~areClustersCurrent(cachedClusters.array, board)
             THEN [found |-> TRUE, stale |-> TRUE, clusters |-> cachedClusters]
             ELSE [found |-> TRUE, stale |-> FALSE, clusters |-> cachedClusters]

\* cachedClusters.length > 0 ? cachedClusters[0].id : (selection unchanged)
firstIdOr(clusters, selected) ==
    IF isParsedArray(clusters) /\ Len(clusters.array) > 0
    THEN clusters.array[1].id
    ELSE selected

\* the effect on isOpen: show what the cache holds, or start a generation.
\* The state setters of one handler are applied together, the last call to
\* a setter winning: setCacheStatus('fresh') comes after the
\* setCacheStatus('stale') of loadClustersFromCache.
OpenDialog ==
    /\ ~dialog.isOpen /\ ~dialog.pending
    /\ LET cachedClusters == loadClustersFromCache(localStorage, dialog.board, now)
       IN  IF cachedClusters.found
           THEN /\ dialog' = [dialog EXCEPT !.isOpen = TRUE,
                                  !.clusters = cachedClusters.clusters,
                                  !.selectedClusterId =
                                      firstIdOr(cachedClusters.clusters, dialog.selectedClusterId),
                                  !.cacheStatus = "fresh",
                                  !.opened = cachedClusters]
                /\ UNCHANGED <<now, ticks, requestCache, localStorage, call, inflight,
                               chunk, fold>>
           ELSE /\ dialog' = [dialog EXCEPT !.isOpen = TRUE, !.loading = TRUE, !.error = "",
                                  !.pending = TRUE, !.opened = NotOpened]
                /\ generateClusters(1, dialog.board, FALSE)
    /\ UNCHANGED <<dup, sig, staleness, cleared, form, boardState>>

\* response.clusters.map(...) of the dialog's generateClusters
dialogClustersOf(clusters, t) ==
    [k \in 1..Len(clusters) |->
        [id |-> clusters[k].clusterName,
         title |-> clusters[k].clusterName,
         description |-> <<"Cluster of cards related to ", clusters[k].clusterName>>,
         cardIds |-> clusters[k].cards,
         cards |-> clusters[k].cards,
         createdAt |-> t,
         clusterName |-> clusters[k].clusterName]]

\* saveClustersToCache: two setItem calls, of which the first setItems
\* succeed (the next one throws and the catch block logs it)
saveClustersToCache(storage, clusters, t, setItems) ==
    LET one == setEntry(storage, [key |-> CLUSTERS_CACHE_KEY, value |-> parsedArray(clusters)])
    IN  IF setItems = 0 THEN storage
        ELSE IF setItems = 1 THEN one
        ELSE setEntry(one, [key |-> CLUSTERS_TIMESTAMP_KEY, value |-> [text |-> t]])

\* the rest of the dialog's generateClusters, once the service has settled
DialogGenerated(setItems) ==
    /\ dialog.pending /\ call[1].pc = "done"
    /\ IF call[1].outcome.kind = "resolved"
       THEN LET newClusters == dialogClustersOf(call[1].outcome.value.clusters, now)
                saved == Len(newClusters) > 0 /\ setItems = 2
            IN  /\ dialog' = [dialog EXCEPT !.clusters = parsedArray(newClusters),
                                  !.selectedClusterId = firstIdOr(parsedArray(newClusters), ""),
                                  !.cacheStatus = IF saved THEN "fresh" ELSE dialog.cacheStatus,
                                  !.loading = FALSE, !.pending = FALSE]
                /\ localStorage' = IF Len(newClusters) > 0
                                   THEN saveClustersToCache(localStorage, newClusters, now, setItems)
                                   ELSE localStorage
       ELSE /\ dialog' = [dialog EXCEPT !.error = "Failed to generate clusters.",
                              !.clusters = parsedArray(<<>>), !.selectedClusterId = "",
                              !.loading = FALSE, !.pending = FALSE]
            /\ UNCHANGED localStorage
    /\ call' = [call EXCEPT ![1] = NewCall]
    /\ UNCHANGED <<now, ticks, requestCache, inflight, chunk, fold, dup, sig, staleness, cleared, form, boardState>>

\* the 'Re-cluster' button (disabled while loading): generateClusters(true)
\* of the dialog up to its await.  forceRefresh skips the dialog's own cache
\* branch; the service is called with the cards only, so that its
\* forceRefresh parameter takes its default, false.
ReCluster ==
    /\ dialog.isOpen /\ ~dialog.loading /\ ~dialog.pending
    /\ dialog' = [dialog EXCEPT !.loading = TRUE, !.error = "", !.pending = TRUE]
    /\ generateClusters(1, dialog.board, FALSE)
    /\ UNCHANGED <<dup, sig, staleness, cleared, form, boardState>>

\* onDismiss: the parent closes the dialog; the component keeps its state
DismissDialog ==
    /\ dialog.isOpen
    /\ dialog' = [dialog EXCEPT !.isOpen = FALSE, !.opened = NotOpened]
    /\ UNCHANGED <<now, ticks, requestCache, localStorage, call, inflight, chunk, fold,
                   dup, sig, staleness, cleared, form, boardState>>

\* the board gets another card list while the dialog is closed
BoardChanges(board) ==
    /\ ~dialog.isOpen /\ board # dialog.board
    /\ dialog' = [dialog EXCEPT !.board = board]
    /\ UNCHANGED <<now, ticks, requestCache, localStorage, call, inflight, chunk, fold,
                   dup, sig, staleness, cleared, form, boardState>>

\* the wall clock advances
Tick(d) ==
    /\ ticks < MaxTicks
    /\ d <= CACHE_TTL + MaxTicks - now
    /\ now' = now + d
    /\ ticks' = ticks + 1
    /\ UNCHANGED <<requestCache, localStorage, chunk, fold>>

TickSteps == {1, CACHE_TTL - 1}

\* the variables no operation of the service touches
others == <<dialog, sig, staleness, cleared, form, boardState>>

\* ------------------------------------------ two calls, one after the other
Sequential(p) == p = 1 \/ call[1].pc = "done"

StartCall == \E p \in Callers, cards \in CardInputs, f \in BOOLEAN :
                 Sequential(p) /\ generateClusters(p, cards, f) /\ UNCHANGED <<dup, others>>
BatchOk == \E p \in Callers, body \in FewBodies, ok \in BOOLEAN :
               batchResponseOk(p, body, ok) /\ UNCHANGED <<dup, others>>
SingleOk == \E p \in Callers, body \in FewBodies, ok \in BOOLEAN :
                singleResponseOk(p, body, ok) /\ UNCHANGED <<dup, others>>
Failed == \E p \in Callers, kind \in FailureKinds :
              responseFailed(p, kind) /\ UNCHANGED <<dup, others>>
Advance == \E d \in TickSteps : Tick(d) /\ UNCHANGED <<call, inflight, dup, others>>

Next == StartCall \/ BatchOk \/ SingleOk \/ Failed \/ Advance

Spec == Init /\ [][Next]_vars

\* ------------------------------ one call, any response the model can name
MergeInputs == {SmallBoard, Ids(MAX_BATCH_SIZE + 1)}

StartMerge == \E cards \in MergeInputs :
                  generateClusters(1, cards, FALSE) /\ UNCHANGED <<dup, others>>
BatchOkAny == \E body \in Bodies : batchResponseOk(1, body, TRUE) /\ UNCHANGED <<dup, others>>
SingleOkAny == \E body \in Bodies : singleResponseOk(1, body, TRUE) /\ UNCHANGED <<dup, others>>
FailedMerge == \E kind \in FailureKinds : responseFailed(1, kind) /\ UNCHANGED <<dup, others>>

InitMerge ==
    /\ InitService
    /\ localStorage = {}
    /\ chunk = NoChunk
    /\ fold = NoFold
    /\ NoDuplicateChecks /\ DialogUnmounted /\ NoApplications /\ NeverCleared /\ FormUnmounted /\ BoardNotLoaded

NextMerge == StartMerge \/ BatchOkAny \/ SingleOkAny \/ FailedMerge

SpecMerge == InitMerge /\ [][NextMerge]_vars

\* ------------------------------------------------- duplicate checks alone
NewCards == {card("n1", "Login fails"), card("n2", "Dark mode")}
BoardOf(n, title) == [k \in 1..n |-> card(k, title)]
\* boards of two cards that differ in content only, and one above the window
ExistingInputs == {BoardOf(2, "Login broken"), BoardOf(2, "Signup broken"),
                   BoardOf(MAX_BATCH_SIZE + 1, "Login broken")}
DuplicateBodies == {[duplicates |-> <<>>], [duplicates |-> <<1>>]}

InitDup ==
    /\ InitService
    /\ localStorage = {}
    /\ chunk = NoChunk
    /\ fold = NoFold
    /\ NoDuplicateChecks /\ DialogUnmounted /\ NoApplications /\ NeverCleared /\ FormUnmounted /\ BoardNotLoaded

\* two checks, the second one called after the first has returned
NextDup ==
    \/ \E p \in Callers, newCard \in NewCards, existingCards \in ExistingInputs :
          /\ p = 1 \/ dup[1].pc = "done"
          /\ checkForDuplicates(p, newCard, existingCards) /\ UNCHANGED others
    \/ \E p \in Callers, result \in DuplicateBodies :
          checkForDuplicatesResponseOk(p, result) /\ UNCHANGED others
    \/ \E p \in Callers, kind \in FailureKinds :
          checkForDuplicatesResponseFailed(p, kind) /\ UNCHANGED others
    \/ \E d \in TickSteps : Tick(d) /\ UNCHANGED <<call, inflight, dup, others>>

SpecDup == InitDup /\ [][NextDup]_vars

\* ------------------------------------------------ the dialog and the service
Boards == {<<1, 2>>, <<1, 2, 3>>}
DialogBodies == {<<>>,
                 <<[clusterName |-> "UI", cards |-> <<1, 2>>]>>,
                 <<[clusterName |-> "UI", cards |-> <<1>>],
                   [clusterName |-> "Auth bugs", cards |-> <<1, 2>>]>>}
DialogTickSteps == {1, CACHE_EXPIRY_TIME}

\* what an earlier session of the dialog may have left in the durable store
EarlierDialogSession ==
    {[key |-> CLUSTERS_CACHE_KEY,
      value |-> parsedArray(dialogClustersOf(<<[clusterName |-> "UI", cards |-> <<1, 2>>]>>, 0))],
     [key |-> CLUSTERS_TIMESTAMP_KEY, value |-> [text |-> 0]]}

InitDialog ==
    /\ now = 0
    /\ ticks = 0
    /\ requestCache = {}
    /\ localStorage \in {{}, EarlierDialogSession}
    /\ call = [p \in Callers |-> NewCall]
    /\ inflight = {}
    /\ chunk = NoChunk
    /\ fold = NoFold
    /\ \E board \in Boards : dialog = [ClosedDialog EXCEPT !.board = board]
    /\ NoDuplicateChecks /\ NoApplications /\ NeverCleared /\ FormUnmounted /\ BoardNotLoaded

NextDialog ==
    \/ OpenDialog
    \/ \E setItems \in 0..2 : DialogGenerated(setItems)
    \/ ReCluster
    \/ DismissDialog
    \/ \E board \in Boards : BoardChanges(board)
    \/ \E body \in DialogBodies, ok \in BOOLEAN :
          singleResponseOk(1, body, ok) /\ UNCHANGED <<dup, others>>
    \/ \E kind \in FailureKinds : responseFailed(1, kind) /\ UNCHANGED <<dup, others>>
    \/ \E d \in DialogTickSteps : Tick(d) /\ UNCHANGED <<call, inflight, dup, others>>

SpecDialog == InitDialog /\ [][NextDialog]_vars

\* --------------------------------------- both operations and clearCache
\* a key some other script of the page keeps in the store
Foreign == [key |-> "theme", value |-> [raw |-> "dark"]]
ClearBoards == {BoardOf(2, "Login broken")}

\* the bookkeeping of any operation other than clearCache: note the call
\* that starts right after a clearCache
noteOperation(kind, p) ==
    cleared' = [cleared EXCEPT !.done = FALSE,
                               !.next = IF cleared.done THEN <<kind, p>> ELSE cleared.next]

\* two operations, each a clustering or a duplicate check, the second one
\* called after the first has returned
Turn(p) ==
    /\ call[p].pc = "ready" /\ dup[p].pc = "ready"
    /\ p = 1 \/ call[1].pc = "done" \/ dup[1].pc = "done"

InitClear ==
    /\ now = 0
    /\ ticks = 0
    /\ requestCache = {}
    /\ localStorage \in {{}, {EarlierSession, Foreign}, EarlierDialogSession}
    /\ call = [p \in Callers |-> NewCall]
    /\ inflight = {}
    /\ chunk = NoChunk
    /\ fold = NoFold
    /\ NoDuplicateChecks /\ DialogUnmounted /\ NoApplications /\ NeverCleared /\ FormUnmounted /\ BoardNotLoaded

NextClear ==
    \/ \E p \in Callers, f \in BOOLEAN :
          /\ Turn(p) /\ generateClusters(p, SmallBoard, f)
          /\ noteOperation("clusters", p) /\ UNCHANGED <<dup, dialog, sig, staleness, form, boardState>>
    \/ \E p \in Callers, body \in FewBodies, ok \in BOOLEAN :
          /\ singleResponseOk(p, body, ok)
          /\ noteOperation("none", 0) /\ UNCHANGED <<dup, dialog, sig, staleness, form, boardState>>
    \/ \E p \in Callers, kind \in FailureKinds :
          /\ responseFailed(p, kind)
          /\ noteOperation("none", 0) /\ UNCHANGED <<dup, dialog, sig, staleness, form, boardState>>
    \/ \E p \in Callers, newCard \in NewCards, existingCards \in ClearBoards :
          /\ Turn(p) /\ checkForDuplicates(p, newCard, existingCards)
          /\ noteOperation("duplicates", p) /\ UNCHANGED <<dialog, sig, staleness, form, boardState>>
    \/ \E p \in Callers, result \in DuplicateBodies :
          /\ checkForDuplicatesResponseOk(p, result)
          /\ noteOperation("none", 0) /\ UNCHANGED <<dialog, sig, staleness, form, boardState>>
    \/ \E p \in Callers, kind \in FailureKinds :
          /\ checkForDuplicatesResponseFailed(p, kind)
          /\ noteOperation("none", 0) /\ UNCHANGED <<dialog, sig, staleness, form, boardState>>
    \/ clearCache

SpecClear == InitClear /\ [][NextClear]_vars

\* ------------------------------------- the merge step as a function: folds
\* of one batch result into an accumulator (any response body can be the
\* accumulator: the first batch is taken verbatim)
InitFold ==
    /\ InitService
    /\ localStorage = {}
    /\ chunk = NoChunk
    /\ fold \in [acc : Bodies, batch : Bodies, count : {0}, once : {<<>>}]
    /\ NoDuplicateChecks /\ DialogUnmounted /\ NoApplications /\ NeverCleared /\ FormUnmounted /\ BoardNotLoaded

FoldStep ==
    /\ fold.count < 2
    /\ LET merged == foldBatch(fold.count + 1, fold.acc, fold.batch)
       IN  fold' = [fold EXCEPT !.acc = merged, !.count = fold.count + 1,
                                !.once = IF fold.count = 0 THEN merged ELSE fold.once]
    /\ UNCHANGED <<now, ticks, requestCache, localStorage, call, inflight, chunk,
                   dup, others>>

NextFold == FoldStep

SpecFold == InitFold /\ [][NextFold]_vars

\* ------------------------------------------------ chunkArray as a function
ChunkItems == {1, 2}
ChunkArrays == UNION {[1..n -> ChunkItems] : n \in 0..MaxChunkLen}
ChunkSizes == (0 - MaxChunkSize)..MaxChunkSize

InitChunk ==
    /\ InitService
    /\ localStorage = {}
    /\ fold = NoFold
    /\ NoDuplicateChecks /\ DialogUnmounted /\ NoApplications /\ NeverCleared /\ FormUnmounted /\ BoardNotLoaded
    /\ \E in \in (ChunkArrays \X ChunkSizes) \cup {<<Ids(120), MAX_BATCH_SIZE>>} :
          chunk = [NoChunk EXCEPT !.array = in[1], !.chunkSize = in[2]]

ApplyChunk ==
    /\ ~chunk.applied
    /\ chunk' = [chunk EXCEPT !.applied = TRUE,
                              !.result = chunkArray(chunk.array, chunk.chunkSize)]
    /\ UNCHANGED <<now, ticks, requestCache, localStorage, call, inflight, fold,
                   dup, others>>

NextChunk == ApplyChunk

SpecChunk == InitChunk /\ [][NextChunk]_vars

\* ------------------------------------ the signature functions as functions
\* payloads with the properties a and b in either order, holding numbers or
\* an object; card lists of distinct ids in any order
SigValues == {JScalar(1), JScalar(2),
              JObject(<<[key |-> "a", value |-> JScalar(1)], [key |-> "b", value |-> JScalar(2)]>>),
              JObject(<<[key |-> "b", value |-> JScalar(2)], [key |-> "a", value |-> JScalar(1)]>>)}
SigPayloads ==
    {JObject(props) : props \in
        {ps \in UNION {[1..n -> [key : {"a", "b"}, value : SigValues]] : n \in 0..2} :
            \A i, j \in 1..Len(ps) : ps[i].key = ps[j].key => i = j}}
SigCardLists ==
    {cs \in UNION {[1..n -> 1..MaxSigLen] : n \in 0..MaxSigLen} :
        \A i, j \in 1..Len(cs) : cs[i] = cs[j] => i = j}

InitSig ==
    /\ InitService
    /\ localStorage = {}
    /\ chunk = NoChunk
    /\ fold = NoFold
    /\ NoDuplicateChecks /\ DialogUnmounted /\ NeverCleared /\ FormUnmounted /\ BoardNotLoaded
    /\ staleness = NoStaleness
    /\ \/ \E l \in SigPayloads, r \in SigPayloads :
              sig = [NoSig EXCEPT !.left = l, !.right = r]
       \/ \E l \in SigCardLists, r \in SigCardLists :
              sig = [NoSig EXCEPT !.cardsLeft = l, !.cardsRight = r]

ApplySig ==
    /\ ~sig.applied
    /\ sig' = [sig EXCEPT !.applied = TRUE,
                          !.keyLeft = generateCacheKey("x", sig.left),
                          !.keyRight = generateCacheKey("x", sig.right),
                          !.signatureLeft = cardsSignatureOf(sig.cardsLeft),
                          !.signatureRight = cardsSignatureOf(sig.cardsRight)]
    /\ UNCHANGED <<now, ticks, requestCache, localStorage, call, inflight, chunk, fold,
                   dup, dialog, staleness, cleared, form, boardState>>

SpecSig == InitSig /\ [][ApplySig]_vars

\* -------------------------------------- areClustersCurrent as a function
\* cached clusters over three card ids, an id possibly in several clusters;
\* boards that are subsets of the three ids; and one cluster of cards 1..10
\* against a board where three of the ten were replaced
StaleIdLists == {<<>>, <<1>>, <<2>>, <<3>>, <<1, 2>>, <<1, 3>>, <<2, 3>>}
StaleBoards == StaleIdLists \cup {<<1, 2, 3>>}
StaleClusterSets ==
    UNION {[1..n -> [id : {"UI"}, cardIds : StaleIdLists]] : n \in 0..MaxStaleClusters}
TenCards == <<[id |-> "UI", cardIds |-> Ids(10)]>>
ThreeReplaced == <<1, 2, 3, 4, 5, 6, 7, 11, 12, 13>>

InitStale ==
    /\ InitService
    /\ localStorage = {}
    /\ chunk = NoChunk
    /\ fold = NoFold
    /\ NoDuplicateChecks /\ DialogUnmounted /\ NeverCleared /\ FormUnmounted /\ BoardNotLoaded
    /\ sig = NoSig
    /\ \E in \in (StaleClusterSets \X StaleBoards) \cup {<<TenCards, ThreeReplaced>>} :
          staleness = [NoStaleness EXCEPT !.clusters = in[1], !.currentCardIds = in[2]]

ApplyStale ==
    /\ ~staleness.applied
    /\ staleness' = [staleness EXCEPT
          !.applied = TRUE,
          !.counts = changeCounts(staleness.clusters, staleness.currentCardIds),
          !.current = areClustersCurrent(staleness.clusters, staleness.currentCardIds)]
    /\ UNCHANGED <<now, ticks, requestCache, localStorage, call, inflight, chunk, fold,
                   dup, dialog, sig, cleared, form, boardState>>

SpecStale == InitStale /\ [][ApplyStale]_vars

\* ================================================================ claims
Done(p) == call[p].pc = "done"
\* caller p has returned and no later call has started
JustFinished(p) == Done(p) /\ (p = 1 => call[2].pc = "ready")
MultiBatch(p) == Len(call[p].batches) > 0
Succeeded(p) == Done(p) /\ call[p].failedAt = 0
Returned(p) == call[p].outcome.value.clusters

RECURSIVE accAfter(_, _)
\* the accumulator after the first b responses of a batch loop
accAfter(responses, b) ==
    IF b = 0 THEN <<>>
    ELSE foldBatch(b - 1, accAfter(responses, b - 1), responses[b])

clustersNamed(clusters, name) ==
    {k \in 1..Len(clusters) : toLowerCase(clusters[k].clusterName) = toLowerCase(name)}

\* the accumulator just before cluster m of response b is merged
accBefore(responses, b, m) ==
    mergeClusters(accAfter(responses, b - 1), SubSeq(responses[b], 1, m - 1))

\* cluster m of response b is the last one of the loop merged under its name
LastMergeOfName(responses, b, m) ==
    \A b2 \in b..Len(responses) : \A m2 \in 1..Len(responses[b2]) :
        (b2 > b \/ m2 > m) =>
            toLowerCase(responses[b2][m2].clusterName) # toLowerCase(responses[b][m].clusterName)

\* C1: in a call of more than one batch, when a later batch returns a
\* cluster whose name equals, ignoring case, the name of a cluster already
\* in the accumulator, the returned set has exactly one cluster of that
\* name, and its cards are the earlier cluster's cards followed by the
\* later cluster's cards with repeated ids removed.
C1_CrossBatchNameReuse ==
    \A p \in Callers :
        (Succeeded(p) /\ MultiBatch(p)) =>
            \A b \in 2..Len(call[p].responses) : \A m \in 1..Len(call[p].responses[b]) :
                LET newCluster == call[p].responses[b][m]
                    before == accBefore(call[p].responses, b, m)
                    k == findClusterIndex(before, newCluster)
                    named == clustersNamed(Returned(p), newCluster.clusterName)
                IN  k > 0 =>
                      /\ Cardinality(named) = 1
                      /\ LastMergeOfName(call[p].responses, b, m) =>
                            \A j \in named : Returned(p)[j].cards =
                                uniqueCards(before[k].cards \o newCluster.cards)

\* C2: folding the same batch result into an accumulator a second time
\* leaves the accumulator as the first fold left it.
C2_MergeIdempotent == fold.count = 2 => fold.acc = fold.once

\* C3: no two clusters of a returned cluster set have names that are equal
\* ignoring case.
C3_UniqueClusterNames ==
    \A p \in Callers :
        Done(p) =>
            \A j, k \in 1..Len(Returned(p)) :
                toLowerCase(Returned(p)[j].clusterName) = toLowerCase(Returned(p)[k].clusterName)
                    => j = k

\* two unforced calls with the same card list, the second one starting less
\* than one TTL after the first one returned
TwoCallsWithinTTL ==
    /\ Done(1) /\ Done(2)
    /\ call[1].cards = call[2].cards
    /\ ~call[1].forceRefresh /\ ~call[2].forceRefresh
    /\ call[2].startedAt - call[1].finishedAt < CACHE_TTL

inMemory(key, data) == hasKey(requestCache, key) /\ entryOf(requestCache, key).data = data
inSlot(data) ==
    /\ hasKey(localStorage, CLUSTERS_CACHE_KEY)
    /\ entryOf(localStorage, CLUSTERS_CACHE_KEY).value.data = data

\* C5 (as stated): a forced call issues at least one request whatever the
\* tiers hold, and when all its requests succeed the in-process entry of
\* its signature and the durable slot both hold the fetched result.
C5_ForcedRefreshOverwritesBoth ==
    \A p \in Callers :
        (JustFinished(p) /\ call[p].forceRefresh) =>
            /\ Len(call[p].requests) >= 1
            /\ call[p].failedAt = 0 =>
                  /\ inMemory(call[p].cacheKey, call[p].outcome.value)
                  /\ inSlot(call[p].outcome.value)

\* C5 (amended): as above, except that the durable slot holds the fetched
\* result only when the durable write did not throw; when it throws the
\* durable store is left as it was.
C5_ForcedRefreshOverwrites ==
    \A p \in Callers :
        (JustFinished(p) /\ call[p].forceRefresh) =>
            /\ Len(call[p].requests) >= 1
            /\ call[p].failedAt = 0 =>
                  /\ inMemory(call[p].cacheKey, call[p].outcome.value)
                  /\ call[p].setItemOk => inSlot(call[p].outcome.value)
                  /\ ~call[p].setItemOk => localStorage = call[p].storageAtRequest

\* a forced second call that found a valid in-process entry and a valid
\* slot, both holding another result, and replaced both
C5_Witness ==
    /\ JustFinished(2) /\ call[2].forceRefresh /\ call[2].failedAt = 0
    /\ call[2].setItemOk
    /\ \E e \in call[2].cacheAtRequest :
          /\ e.key = call[2].cacheKey
          /\ isCacheValid(e, call[2].startedAt)
          /\ e.data # call[2].outcome.value
    /\ getClustersFromLocalStorage(call[2].storageAtRequest, <<>>, call[2].startedAt).found
    /\ inMemory(call[2].cacheKey, call[2].outcome.value)
    /\ inSlot(call[2].outcome.value)

\* C6: a call one of whose requests failed ends as a rejection, not as a
\* resolved cluster set.
C6_FailureIsRejected ==
    \A p \in Callers :
        (Done(p) /\ call[p].failedAt > 0) => call[p].outcome.kind = "rejected"

\* C7: when the request of batch k fails no request of a later batch is
\* issued, the clusters accumulated so far are not returned, and neither
\* cache tier differs from what it was when the call was made.
C7_AbortOnBatchFailure ==
    \A p \in Callers :
        (JustFinished(p) /\ MultiBatch(p) /\ call[p].failedAt > 0) =>
            /\ Len(call[p].requests) = call[p].failedAt
            /\ \A k \in 1..Len(call[p].requests) :
                  call[p].requests[k].batchInfo.current <= call[p].failedAt
            /\ ~\E r \in inflight : r.caller = p
            /\ Returned(p) = <<>>
            /\ requestCache = call[p].cacheAtRequest
            /\ localStorage = call[p].storageAtRequest

C7_Witness ==
    /\ JustFinished(2) /\ MultiBatch(2)
    /\ call[2].failedAt = 2 /\ Len(call[2].batches) = 3
    /\ call[2].accumulatedClusters # <<>>
    /\ requestCache # {} /\ localStorage # {}

ceilDiv(n, b) == CHOOSE k \in 0..n : k * b >= n /\ (k = 0 \/ (k - 1) * b < n)

\* C8: in a batch loop at most one request is in flight, requests go out in
\* batch order, and the request of batch k carries the names of the
\* clusters accumulated from the responses to batches 1..k-1 together with
\* batchInfo {current: k, total: number of batches}.
C8_SequentialNameForwarding ==
    \A p \in Callers :
        MultiBatch(p) =>
            LET c == call[p]
                total == ceilDiv(Len(c.cards), MAX_BATCH_SIZE)
                outstanding == {r \in inflight : r.caller = p}
            IN  /\ Cardinality(outstanding) <= 1
                /\ Len(c.requests) - Len(c.responses) \in {0, 1}
                /\ Cardinality(outstanding) = 1 =>
                      /\ Len(c.requests) = Len(c.responses) + 1
                      /\ \A r \in outstanding : r.request = c.requests[Len(c.requests)]
                /\ \A k \in 1..Len(c.requests) :
                      /\ c.requests[k].batchInfo = [current |-> k, total |-> total]
                      /\ c.requests[k].cards =
                            SubSeq(c.cards, (k - 1) * MAX_BATCH_SIZE + 1,
                                   Min(k * MAX_BATCH_SIZE, Len(c.cards)))
                      /\ c.requests[k].existingClusters =
                            existingClusterNamesOf(accAfter(c.responses, k - 1))

C8_Witness ==
    /\ call[1].pc = "awaitBatch" /\ call[1].i = 2
    /\ Len(call[1].requests[3].existingClusters) = 2
    /\ call[1].requests[2].existingClusters # call[1].requests[3].existingClusters

RECURSIVE flatten(_)
flatten(batches) ==
    IF batches = <<>> THEN <<>> ELSE Head(batches) \o flatten(Tail(batches))

\* C9: for a batch size B > 0 chunkArray returns ceil(N/B) batches, each a
\* contiguous slice of at most B cards, whose concatenation is the input;
\* 120 cards with B = 50 give batches of 50, 50 and 20.
C9_BatchingComplete ==
    (chunk.applied /\ chunk.chunkSize > 0) =>
        LET n == Len(chunk.array)
            b == chunk.chunkSize
            batches == chunk.result.value
        IN  /\ ~chunk.result.threw
            /\ Len(batches) = ceilDiv(n, b)
            /\ \A i \in 1..Len(batches) :
                  /\ Len(batches[i]) <= b
                  /\ Len(batches[i]) >= 1
                  /\ batches[i] = SubSeq(chunk.array, (i - 1) * b + 1, (i - 1) * b + Len(batches[i]))
            /\ flatten(batches) = chunk.array
            /\ (n = 120 /\ b = 50) =>
                  [i \in 1..Len(batches) |-> Len(batches[i])] = <<50, 50, 20>>

C9_Witness ==
    /\ chunk.applied /\ chunk.chunkSize = 50 /\ Len(chunk.array) = 120
    /\ Len(chunk.result.value) = 3

\* C10: chunkArray with a batch size B <= 0 fails with an error for every
\* input list.
C10_InvalidBatchSizeFails ==
    (chunk.applied /\ chunk.chunkSize <= 0) => chunk.result.threw

\* C11: a duplicate check whose collaborator call rejects, answers with a
\* non-success status or answers with an unparseable body resolves, never
\* rejects, and resolves to an empty list of duplicates.
C11_DuplicateCheckFailsOpen ==
    \A p \in Callers :
        (dup[p].pc = "done" /\ dup[p].failure # "none") =>
            /\ dup[p].outcome.kind = "resolved"
            /\ dup[p].outcome.value = [duplicates |-> <<>>]

\* the second check failed on an unparseable body after the first one had
\* found a duplicate
C11_Witness ==
    /\ dup[1].pc = "done" /\ dup[1].outcome.value = [duplicates |-> <<1>>]
    /\ dup[2].pc = "done" /\ dup[2].failure = "parse"
    /\ dup[2].outcome.value.duplicates = <<>>

\* C12: two duplicate checks that differ in the new card or in the content
\* of the (capped) existing cards never have the same cache key, so neither
\* is answered with the result cached for the other.
C12_KeyDistinguishesRequests ==
    \A p, q \in Callers :
        (/\ dup[p].pc # "ready" /\ dup[q].pc # "ready"
         /\ \/ dup[p].newCard # dup[q].newCard
            \/ dup[p].cardsToCheck # dup[q].cardsToCheck)
            => dup[p].cacheKey # dup[q].cacheKey

RECURSIVE sameUpToKeyOrder(_, _)
\* two JSON values that differ at most in the order of object properties
sameUpToKeyOrder(x, y) ==
    IF isObject(x)
    THEN /\ isObject(y) /\ Len(x.props) = Len(y.props)
         /\ \A i \in 1..Len(x.props) : \E j \in 1..Len(y.props) :
                /\ x.props[i].key = y.props[j].key
                /\ sameUpToKeyOrder(x.props[i].value, y.props[j].value)
    ELSE IF isArray(x)
    THEN /\ isArray(y) /\ Len(x.items) = Len(y.items)
         /\ \A i \in 1..Len(x.items) : sameUpToKeyOrder(x.items[i], y.items[i])
    ELSE ~isObject(y) /\ ~isArray(y) /\ x = y

sameIds(cs, ds) == Len(cs) = Len(ds) /\ \A i \in 1..Len(cs) : \E j \in 1..Len(ds) : cs[i] = ds[j]

\* C13: generateCacheKey gives two payloads that differ only in the order of
\* object keys the same key, and the cards signature of generateClusters is
\* the same for two card lists holding the same ids in different orders.
C13_SignatureOrderIndependent ==
    sig.applied =>
        /\ sameUpToKeyOrder(sig.left, sig.right) => sig.keyLeft = sig.keyRight
        /\ sameIds(sig.cardsLeft, sig.cardsRight) => sig.signatureLeft = sig.signatureRight

\* the payloads {a: 1, b: 2} and {b: 2, a: 1}
C13_Witness ==
    /\ sig.applied
    /\ sig.left = JObject(<<[key |-> "a", value |-> JScalar(1)],
                            [key |-> "b", value |-> JScalar(2)]>>)
    /\ sig.right = JObject(<<[key |-> "b", value |-> JScalar(2)],
                             [key |-> "a", value |-> JScalar(1)]>>)
    /\ sig.keyLeft = sig.keyRight

cardsOf(cluster) == {cluster.cards[j] : j \in 1..Len(cluster.cards)}

\* C14: card ids are suppressed only between clusters of the same name.
\* Every card of every cluster the collaborator returned, in any batch, is
\* in a returned cluster of that cluster's name, so a card returned under
\* two different names is kept under both; and a returned cluster holds no
\* card that was not returned under its name.
C14_SuppressionOnlyOnNameMatch ==
    \A p \in Callers :
        (Succeeded(p) /\ call[p].servedFrom = "network") =>
            /\ \A b \in 1..Len(call[p].responses) : \A m \in 1..Len(call[p].responses[b]) :
                  \A x \in cardsOf(call[p].responses[b][m]) :
                      \E k \in clustersNamed(Returned(p), call[p].responses[b][m].clusterName) :
                          x \in cardsOf(Returned(p)[k])
            /\ \A k \in 1..Len(Returned(p)) : \A x \in cardsOf(Returned(p)[k]) :
                  \E b \in 1..Len(call[p].responses) :
                      \E m \in clustersNamed(call[p].responses[b], Returned(p)[k].clusterName) :
                          x \in cardsOf(call[p].responses[b][m])

\* card B came back under 'Auth bugs' and 'UI' in batch 1 and again under
\* 'auth bugs' in batch 2: the repeat is dropped, both clusters keep B
C14_Witness ==
    /\ Succeeded(1) /\ MultiBatch(1)
    /\ call[1].responses =
          <<  <<[clusterName |-> "Auth bugs", cards |-> <<"A", "B">>],
                [clusterName |-> "UI", cards |-> <<"B", "C">>]>>,
              <<[clusterName |-> "auth bugs", cards |-> <<"B", "C">>]>>  >>
    /\ Len(Returned(1)) = 2
    /\ Returned(1)[1].cards = <<"A", "B", "C">>
    /\ Returned(1)[2].cards = <<"B", "C">>

\* C15: no cluster of a returned cluster set lists the same card id twice,
\* whatever the collaborator returned.
C15_NoRepeatedCardInCluster ==
    \A p \in Callers :
        Succeeded(p) =>
            \A k \in 1..Len(Returned(p)) :
                \A i, j \in 1..Len(Returned(p)[k].cards) :
                    Returned(p)[k].cards[i] = Returned(p)[k].cards[j] => i = j

\* the in-process entries a duplicate check found under its key
heldAtRequest(p) == {e \in dup[p].cacheAtRequest : e.key = dup[p].cacheKey}

ServedOnlyWhenYoung ==
    \A p \in Callers :
        dup[p].pc # "ready" =>
            /\ dup[p].servedFrom = "memory" =>
                  \E e \in heldAtRequest(p) : dup[p].startedAt - e.timestamp < CACHE_TTL
            /\ (\E e \in heldAtRequest(p) : dup[p].startedAt - e.timestamp >= CACHE_TTL) =>
                  dup[p].servedFrom = "network"

ReadKeepsMap ==
    \A p \in Callers :
        (dup[p].pc = "ready" /\ dup'[p].pc # "ready") => requestCache' = requestCache

\* C16: an in-process entry is served by a read only while now - storedAt
\* is below the TTL; an entry whose age has reached the TTL, exactly the
\* TTL included, is passed over, and the read leaves it in the map.
C16_LazyExpiry == []ServedOnlyWhenYoung /\ [][ReadKeepsMap]_vars

\* a check that found an entry aged exactly one TTL under its key, went to
\* the collaborator, and the entry is still in the map
C16_Witness ==
    /\ dup[2].pc = "awaitResponse"
    /\ \E e \in heldAtRequest(2) :
          /\ dup[2].startedAt - e.timestamp = CACHE_TTL
          /\ e \in requestCache

\* C17: when the dialog opens on a durable cache that the staleness check
\* judges stale, the cached clusters are shown and, the open handler having
\* finished, the cache status is 'stale'.
C17_StaleCacheAnnotated ==
    (dialog.isOpen /\ dialog.opened.found /\ dialog.opened.stale) =>
        /\ dialog.clusters = dialog.opened.clusters
        /\ dialog.cacheStatus = "stale"

cachedIdSet == UNION {{c.cardIds[j] : j \in 1..Len(c.cardIds)} :
                          c \in {staleness.clusters[k] : k \in 1..Len(staleness.clusters)}}
currentIdSet == {staleness.currentCardIds[i] : i \in 1..Len(staleness.currentCardIds)}
distinctAdded == Cardinality(currentIdSet \ cachedIdSet)
distinctRemoved == Cardinality(cachedIdSet \ currentIdSet)
distinctTotal == IF Cardinality(cachedIdSet) > Cardinality(currentIdSet)
                 THEN Cardinality(cachedIdSet) ELSE Cardinality(currentIdSet)

\* C18: the cache is judged current exactly when (added + removed) /
\* max(|current ids|, |cached ids|) < 0.2, added being the number of
\* distinct current ids in no cached cluster and removed the number of
\* distinct cached ids not on the board, also when an id is in more than
\* one cached cluster.
C18_StalenessFormula ==
    staleness.applied =>
        (staleness.current <=>
            (distinctTotal > 0 /\ 5 * (distinctAdded + distinctRemoved) < distinctTotal))

ExampleOfThree ==
    /\ staleness.applied
    /\ staleness.clusters = TenCards
    /\ staleness.currentCardIds = ThreeReplaced

\* C19 (as stated): for a cache covering cards 1..10 and a board where 3 of
\* the 10 were replaced, the computed change ratio is 3/10 and the cache is
\* flagged stale.
C19_ExampleRatioThreeTenths ==
    ExampleOfThree =>
        /\ 10 * (staleness.counts.cardsAdded + staleness.counts.cardsRemoved)
              = 3 * staleness.counts.totalCards
        /\ ~staleness.current

\* C19 (amended): for that cache and board the computed change ratio is
\* (3 added + 3 removed) / 10 = 6/10, and the cache is flagged stale.
C19_ExampleRatioSixTenths ==
    ExampleOfThree =>
        /\ staleness.counts = [cardsAdded |-> 3, cardsRemoved |-> 3, totalCards |-> 10]
        /\ 10 * (staleness.counts.cardsAdded + staleness.counts.cardsRemoved)
              = 6 * staleness.counts.totalCards
        /\ ~staleness.current

C19_Witness == ExampleOfThree /\ ~staleness.current /\ staleness.counts.cardsRemoved = 3

C21_ClusteringFailureVisible ==
    [][(dialog.pending /\ ~dialog'.pending /\ call[1].failedAt > 0) =>
           /\ dialog'.clusters = parsedArray(<<>>)
           /\ dialog'.error # ""]_vars

\* C22: every cluster returned by a successful call that reached the
\* collaborator has id equal to its name, the synthesized description, and
\* the createdAt of the time the last batch was merged, whatever the number
\* of cards.
C22_FinalTagging ==
    (Succeeded(1) /\ call[1].servedFrom = "network") =>
        \A k \in 1..Len(Returned(1)) :
            LET cluster == Returned(1)[k]
            IN  /\ {"id", "description", "createdAt"} \subseteq DOMAIN cluster
                /\ cluster.id = cluster.clusterName
                /\ cluster.description = <<"Cluster of cards related to ", cluster.clusterName>>
                /\ cluster.createdAt = call[1].finishedAt

lastCards(cards) ==
    LET n == Len(cards)
        m == Min(n, MAX_BATCH_SIZE)
    IN  [k \in 1..m |-> cards[n - m + k]]

\* C23: a duplicate check that goes to the collaborator sends the last
\* min(N, 50) cards of the existing-card list in their order, with cardIds
\* the ids of those cards in the same order, and a list of more than 50
\* cards raises no error.
C23_RecentWindowCap ==
    \A p \in Callers :
        /\ dup[p].servedFrom = "network" =>
              LET window == lastCards(dup[p].existingCards)
              IN  /\ propertyOf(dup[p].request, "existingCards") = JArray(window)
                  /\ propertyOf(dup[p].request, "cardIds") =
                         JArray([k \in 1..Len(window) |-> propertyOf(window[k], "id")])
                  /\ [caller |-> p, request |-> dup[p].request] \in inflight
                         <=> dup[p].pc = "awaitResponse"
        /\ (dup[p].pc = "done" /\ dup[p].failure = "none") => dup[p].outcome.kind = "resolved"
        /\ dup[p].pc = "awaitResponse" => dup[p].failure = "none"

\* a check of a board of 51 cards is with the collaborator: card 1 was left
\* out and card 2 comes first
C23_Witness ==
    /\ dup[1].pc = "awaitResponse"
    /\ Len(dup[1].existingCards) = MAX_BATCH_SIZE + 1
    /\ Len(propertyOf(dup[1].request, "existingCards").items) = MAX_BATCH_SIZE
    /\ propertyOf(dup[1].request, "cardIds").items[1] = JScalar(2)
    /\ propertyOf(dup[1].request, "cardIds").items[MAX_BATCH_SIZE] = JScalar(MAX_BATCH_SIZE + 1)

\* what the collaborator's responses to call p amount to
fetched(p) ==
    IF MultiBatch(p)
    THEN [clusters |-> finalClustersOf(accAfter(call[p].responses, Len(call[p].responses)),
                                       call[p].finishedAt)]
    ELSE [clusters |-> call[p].responses[1]]

\* C24: when the write to the durable store throws after a successful
\* fetch, the call still resolves with the fetched cluster set and the
\* in-process entry of its signature holds that result.
C24_DurableWriteFailureNonFatal ==
    \A p \in Callers :
        (JustFinished(p) /\ Succeeded(p) /\ call[p].servedFrom = "network"
                         /\ ~call[p].setItemOk) =>
            /\ call[p].outcome = [kind |-> "resolved", value |-> fetched(p)]
            /\ inMemory(call[p].cacheKey, fetched(p))

\* a call fetched a non-empty cluster set, the durable write threw, and the
\* store still holds what the earlier session left
C24_Witness ==
    /\ JustFinished(1) /\ Succeeded(1) /\ call[1].servedFrom = "network"
    /\ ~call[1].setItemOk
    /\ Len(Returned(1)) > 0
    /\ inMemory(call[1].cacheKey, call[1].outcome.value)
    /\ localStorage = {EarlierSession}

idSet(cards) == {cards[k] : k \in 1..Len(cards)}

\* C25: a cluster set returned by a non-forced call from a cache tier was
\* computed by the collaborator for a card list with the same set of card
\* ids (the session having started with an empty durable store, the only
\* earlier fetch is the one of the first call).
C25_CacheCoherence ==
    (Done(2) /\ ~call[2].forceRefresh /\ call[2].servedFrom # "network"
             /\ call[1].storageAtRequest = {}) =>
        /\ call[1].servedFrom = "network"
        /\ idSet(call[1].cards) = idSet(call[2].cards)
        /\ call[2].outcome = call[1].outcome

\* the time at which the slot that call p found in the durable store was
\* written, which is the time its data was fetched
slotWrittenAt(p) == entryOf(call[p].storageAtRequest, CLUSTERS_CACHE_KEY).value.timestamp

\* the time at which the data a cache tier served to call p was fetched: an
\* in-process entry is stamped by the fetch that wrote it, unless the first
\* call made it out of the durable slot
fetchedAt(p) ==
    IF call[p].servedFrom = "localStorage" THEN slotWrittenAt(p)
    ELSE IF p = 2 /\ call[1].servedFrom = "localStorage" /\ call[1].cacheKey = call[2].cacheKey
    THEN slotWrittenAt(1)
    ELSE (CHOOSE e \in call[p].cacheAtRequest : e.key = call[p].cacheKey).timestamp

\* C26: a cluster set served from a cache tier by a non-forced call was
\* fetched less than one TTL before the call started, a read of the durable
\* tier in between included.
C26_BoundedAge ==
    \A p \in Callers :
        (Done(p) /\ ~call[p].forceRefresh /\ call[p].servedFrom \in {"memory", "localStorage"}) =>
            call[p].startedAt - fetchedAt(p) < CACHE_TTL

\* ------------------------------------------- two calls that may overlap
\* the cluster view calls generateClusters from an effect and from its
\* refresh button; nothing makes a call wait for the one before it
NextOverlap ==
    \/ \E p \in Callers, cards \in MergeInputs, f \in BOOLEAN :
          generateClusters(p, cards, f) /\ UNCHANGED <<dup, others>>
    \/ \E p \in Callers, body \in FewBodies, ok \in BOOLEAN :
          batchResponseOk(p, body, ok) /\ UNCHANGED <<dup, others>>
    \/ \E p \in Callers, body \in FewBodies, ok \in BOOLEAN :
          singleResponseOk(p, body, ok) /\ UNCHANGED <<dup, others>>
    \/ \E p \in Callers, kind \in FailureKinds :
          responseFailed(p, kind) /\ UNCHANGED <<dup, others>>

SpecOverlap == InitMerge /\ [][NextOverlap]_vars

Awaiting(p) == call[p].pc \in {"awaitBatch", "awaitSingle"}

\* C27: a non-forced call that starts while a non-forced call with the same
\* card list is awaiting the collaborator sends no request of its own, so
\* that the collaborator receives the requests of one of the two only.
C27_OverlappingCallsShareRequests ==
    [][\A p, q \in Callers :
          (/\ p # q
           /\ Awaiting(q) /\ ~call[q].forceRefresh
           /\ call[p].pc = "ready" /\ call'[p].pc # "ready"
           /\ ~call'[p].forceRefresh
           /\ call'[p].cards = call[q].cards) =>
              /\ Len(call'[p].requests) = 0
              /\ inflight' = inflight]_vars

\* C28: pressing 'Re-cluster' in the open dialog always sends a fresh
\* request for the current board cards to the collaborator, whatever the
\* clustering service holds in its caches.
C28_ReClusterReachesCollaborator ==
    [][(dialog.isOpen /\ ~dialog.pending /\ dialog'.pending) =>
           /\ Len(call'[1].requests) >= 1
           /\ call'[1].requests[1] = singleRequest(dialog.board)
           /\ [caller |-> 1, request |-> singleRequest(dialog.board)] \in inflight']_vars

\* ------------------------------------------------------------ CardFormDialog
\* the id uuidv4() gives the candidate card of the p-th check
uuidv4(p) == IF p = 1 THEN "n1" ELSE "n2"

Titles == {"Login fails", "Dark mode"}
\* boardState.cards as the form sees them
FormBoard == BoardOf(2, "Login broken")

\* the user edits the title: the effect on [title, description, editCard]
\* runs its cleanup, clearTimeout(timer), and sets a timer for the new title
TitleChanges(title) ==
    /\ title # form.title
    /\ form.started + 1 <= 2
    /\ form' = [form EXCEPT !.title = title, !.timer = title,
                            !.changedInFlight = @ \/ form.awaiting # {}]
    /\ UNCHANGED <<now, ticks, requestCache, localStorage, call, inflight, chunk, fold,
                   dup, dialog, sig, staleness, cleared, boardState>>

\* 500 ms have passed without another edit: the timer calls the effect's
\* checkForDuplicates, which runs up to its await
TimerFires ==
    /\ form.timer # ""
    /\ LET p == form.started + 1
       IN  /\ form' = [form EXCEPT !.timer = "", !.checkingDuplicates = TRUE,
                                   !.started = p, !.awaiting = @ \cup {p}]
           /\ checkForDuplicates(p, card(uuidv4(p), form.timer), FormBoard)
    /\ UNCHANGED <<dialog, sig, staleness, cleared, boardState>>

\* the promise of check p has settled: the rest of the effect's
\* checkForDuplicates, its finally block included
FormChecked(p) ==
    /\ p \in form.awaiting /\ dup[p].pc = "done"
    /\ LET result == dup[p].outcome
       IN  form' = [form EXCEPT
                       !.duplicateCards = IF result.kind = "resolved" THEN result.value.duplicates
                                          ELSE @,
                       !.showDuplicates = IF result.kind = "resolved"
                                          THEN Len(result.value.duplicates) > 0 ELSE @,
                       !.checkingDuplicates = FALSE,
                       !.awaiting = @ \ {p}]
    /\ UNCHANGED <<now, ticks, requestCache, localStorage, call, inflight, chunk, fold,
                   dup, dialog, sig, staleness, cleared, boardState>>

NextForm ==
    \/ \E title \in Titles : TitleChanges(title)
    \/ TimerFires
    \/ \E p \in Callers : FormChecked(p)
    \/ \E p \in Callers, result \in DuplicateBodies :
          checkForDuplicatesResponseOk(p, result) /\ UNCHANGED <<others, form, boardState>>
    \/ \E p \in Callers, kind \in FailureKinds :
          checkForDuplicatesResponseFailed(p, kind) /\ UNCHANGED <<others, form, boardState>>

SpecForm == InitDup /\ [][NextForm]_vars

\* C29: when the title changed while a duplicate check was in flight, the
\* duplicate list shown once every check has resolved is the result of the
\* check for the latest title, whatever the order of the responses.
C29_LatestDuplicateCheckWins ==
    (form.changedInFlight /\ form.started = 2 /\ form.timer = "" /\ form.awaiting = {}) =>
        /\ propertyOf(dup[2].newCard, "title") = JScalar(form.title)
        /\ form.duplicateCards = dup[2].outcome.value.duplicates
        /\ form.showDuplicates = (Len(dup[2].outcome.value.duplicates) > 0)

\* ------------------------------------------- the board reducer, drag and drop
MaxOrder == 4
CardIds == <<"a", "b", "c">>
ColumnIds == {"col-1", "col-2"}

\* case 'MOVE_CARD' of boardReducer: state.cards.map(...)
MOVE_CARD(cards, payload) ==
    [k \in 1..Len(cards) |->
        LET c == cards[k]
        IN  IF c.id = payload.cardId
            THEN [c EXCEPT !.columnId = payload.destinationColumnId,
                           !.order = payload.newOrder]
            ELSE IF c.columnId = payload.destinationColumnId /\ c.order >= payload.newOrder
            THEN [c EXCEPT !.order = c.order + 1]
            ELSE IF /\ payload.sourceColumnId # payload.destinationColumnId
                    /\ c.columnId = payload.sourceColumnId
                    /\ c.order > payload.newOrder
            THEN [c EXCEPT !.order = c.order - 1]
            ELSE c]

findCard(cards, id) == cards[CHOOSE k \in 1..Len(cards) : cards[k].id = id]
isCard(cards, id) == \E k \in 1..Len(cards) : cards[k].id = id
\* the orders of getCardsInColumn(columnId)
ordersInColumn(cards, columnId) ==
    {cards[k].order : k \in {j \in 1..Len(cards) : cards[j].columnId = columnId}}
\* Math.max(...orders) + 1, or 0 for an empty column
endOfColumn(cards, columnId) ==
    LET orders == ordersInColumn(cards, columnId)
    IN  IF orders = {} THEN 0 ELSE (CHOOSE m \in orders : \A o \in orders : o <= m) + 1

\* handleMoveCard of the Board component: dispatch MOVE_CARD
onMoveCard(cardId, sourceColumnId, destinationColumnId, newOrder) ==
    LET payload == [cardId |-> cardId, sourceColumnId |-> sourceColumnId,
                    destinationColumnId |-> destinationColumnId, newOrder |-> newOrder]
        moved == MOVE_CARD(boardState.cards, payload)
    IN  /\ \A k \in 1..Len(moved) : moved[k].order <= MaxOrder
        /\ boardState' = [cards |-> moved, lastMove |-> payload]

\* handleDragOver: the dragged card is over a column or over another card
handleDragOver(active, over) ==
    /\ isCard(boardState.cards, active)
    /\ LET cards == boardState.cards
           c == findCard(cards, active)
       IN  IF over \in ColumnIds
           THEN /\ c.columnId # over
                /\ onMoveCard(active, c.columnId, over, endOfColumn(cards, over))
           ELSE /\ isCard(cards, over) /\ over # active
                /\ c.columnId # findCard(cards, over).columnId
                /\ onMoveCard(active, c.columnId, findCard(cards, over).columnId,
                              findCard(cards, over).order)
    /\ UNCHANGED <<now, ticks, requestCache, localStorage, call, inflight, chunk, fold,
                   dup, dialog, sig, staleness, cleared, form>>

\* handleDragEnd: the card is dropped on a column or on another card, of
\* its own column or of another one
handleDragEnd(active, over) ==
    /\ isCard(boardState.cards, active)
    /\ LET cards == boardState.cards
           c == findCard(cards, active)
       IN  IF over \in ColumnIds
           THEN /\ c.columnId # over
                /\ onMoveCard(active, c.columnId, over, endOfColumn(cards, over))
           ELSE /\ isCard(cards, over) /\ over # active
                /\ onMoveCard(active, c.columnId, findCard(cards, over).columnId,
                              findCard(cards, over).order)
    /\ UNCHANGED <<now, ticks, requestCache, localStorage, call, inflight, chunk, fold,
                   dup, dialog, sig, staleness, cleared, form>>

\* no two cards of one column share an order value
uniqueOrders(cards) ==
    \A j, k \in 1..Len(cards) :
        (j # k /\ cards[j].columnId = cards[k].columnId) => cards[j].order # cards[k].order

\* boards of three cards over two columns, orders unique within a column
LoadedBoards ==
    {cards \in [1..Len(CardIds) -> [id : {"a", "b", "c"}, columnId : ColumnIds, order : 0..2]] :
        /\ \A k \in 1..Len(CardIds) : cards[k].id = CardIds[k]
        /\ uniqueOrders(cards)}

InitBoard ==
    /\ InitService
    /\ localStorage = {}
    /\ chunk = NoChunk
    /\ fold = NoFold
    /\ NoDuplicateChecks /\ DialogUnmounted /\ NoApplications /\ NeverCleared /\ FormUnmounted
    /\ \E cards \in LoadedBoards : boardState = [cards |-> cards, lastMove |-> NoMove]

DropTargets == ColumnIds \cup {"a", "b", "c"}

NextBoard ==
    \/ \E active \in {"a", "b", "c"}, over \in DropTargets : handleDragOver(active, over)
    \/ \E active \in {"a", "b", "c"}, over \in DropTargets : handleDragEnd(active, over)

SpecBoard == InitBoard /\ [][NextBoard]_vars

\* C30: from a board whose orders are unique within each column, after any
\* sequence of MOVE_CARD actions the orders are still unique within each
\* column, and the moved card is in the destination column at newOrder.
C30_MoveCardKeepsOrdersUnique ==
    /\ uniqueOrders(boardState.cards)
    /\ boardState.lastMove # NoMove =>
          LET moved == findCard(boardState.cards, boardState.lastMove.cardId)
          IN  /\ moved.columnId = boardState.lastMove.destinationColumnId
              /\ moved.order = boardState.lastMove.newOrder

====
